---------------------------- MODULE Spec2Model ----------------------------
(* A model of the BFT2F library (library/replica.py, library/client.py,     *)
(* library/hash_chain_digest.py, library/version_vector.py,                *)
(* library/reply_cache.py and the message classes).                        *)
(*                                                                         *)
(* Python values are modelled as records so that values of different      *)
(* Python types can be compared: None is [py |-> "None"], and str(x) of an *)
(* object of a class without __str__ is Repr(class, address), the default  *)
(* repr                                                                    *)
(* "<module.Class object at 0x...>", which names the object, not its       *)
(* contents.  Addresses <<owner, k>> are distinct for distinct live        *)
(* objects of one process.                                                 *)
EXTENDS Integers, Sequences, FiniteSets, TLC

\* ------------------------------------------------------------- bounds
\* how far the wall clock (time.time()) advances
MaxTime == 1
\* how many datagrams the transport may lose
MaxLost == 1
\* longest chain built in the hash-chain specification
MaxChain == 3
\* how many REPLY datagrams a Byzantine replica sends to one client
MaxReplies == 3
\* how many entries the stand-alone version vector is given
MaxEntries == 3
\* the sequence number a Byzantine replica puts into the messages it makes up
FarSequence == 300
\* the greatest `view` argument a scenario passes to the constructors
MaxView == 3

\* ------------------------------------------------- program constants
VIEW_TIMEOUT == 10
CHECKPOINT_INTERVAL == 100
I == 128
\* Replica.receive_pre_prepare: the width of its window of sequence numbers
W == 2

VARIABLES
    f,                              \* fault tolerance handed to every constructor
    kind,                           \* replica id -> class / behaviour of the replica
    view,                           \* Replica.view
    primary,                        \* Replica.primary
    replicas,                       \* list objects: list id -> list of peers
    replicasOf,                     \* Replica.replicas: replica id -> list id
    clientReplicasOf,               \* Client.replicas: client id -> list id
    reply_cache,                    \* Replica.reply_cache.cache
    version_vector,                 \* Replica.version_vector.vector
    hcd,                            \* Replica.hcd.chain
    accepted_requests,              \* Replica.accepted_requests
    received_pre_prepare_messages,  \* Replica.received_pre_prepare_messages
    received_prepare_messages,      \* Replica.received_prepare_messages
    received_commit_messages,       \* Replica.received_commit_messages
    pending_checkpoints,            \* Replica.pending_checkpoints (its keys)
    timer,                          \* Replica.timer: "None", "started" or "expired"
    listening,                      \* replica id -> its listener thread is running
    handling,                       \* replica id -> the PREPARE its listener thread is
                                    \* inside receive_prepare for, or None
    socket_buffer,                  \* replica id -> datagrams queued at its socket
    executed,                       \* replica id -> the execute_operation calls made
    sent,                           \* replica id -> the protocol messages it multicast
    pending_requests,               \* Client.pending_requests
    received_replies,               \* Client.received_replies
    client_version_vector,          \* Client.version_vector.vector
    client_listening,               \* client id -> its listener thread is running
    client_socket_buffer,           \* client id -> datagrams queued at its socket
    consensus,                      \* client id -> the "Consensus reached" outcomes
    requests_made,                  \* client id -> number of make_request calls
    calls,                          \* client id -> the operations its script requests
    now,                            \* time.time()
    lost,                           \* datagrams lost so far
    chain,                          \* stand-alone HashChainDigest objects: id -> its chain
    vv                              \* a stand-alone VersionVector: its vector, and the last
                                    \* get_current_system_state call with its result

replicaVars == <<view, primary, reply_cache, version_vector, hcd, accepted_requests,
                 received_pre_prepare_messages, received_prepare_messages,
                 received_commit_messages, pending_checkpoints, timer, listening,
                 socket_buffer, executed, sent>>
clientVars == <<pending_requests, received_replies, client_version_vector,
                client_listening, client_socket_buffer, consensus, requests_made>>
configVars == <<f, kind, replicasOf, clientReplicasOf, calls>>
vars == <<configVars, handling, replicas, replicaVars, clientVars, now, lost, chain, vv>>

Rep == DOMAIN view
Cli == DOMAIN pending_requests

\* ------------------------------------------------------ Python values
None == [py |-> "None"]
True == [py |-> "bool", value |-> TRUE]
PyStr(s) == [py |-> "str", value |-> s]
\* a reference to an object of a class without __eq__ and __str__
Object(class, address) == [py |-> "object", class |-> class, address |-> address]
\* str(x) of such an object: the class and the address
Repr(class, address) == [py |-> "repr", class |-> class, address |-> address]
\* the HashChainDigest object of replica r, and the k-th request object
\* replica r keeps in accepted_requests
HcdObject(r) == Object("HashChainDigest", <<r, 0>>)
RequestObject(r, k) == Object("RequestMessage", <<r, k>>)
\* str(x)
Str(x) ==
    CASE x.py = "object" -> Repr(x.class, x.address)
      [] x.py = "None" -> PyStr("None")
      [] x.py = "bool" -> PyStr(IF x.value THEN "True" ELSE "False")
      [] OTHER -> x
\* 'Replica not found', the str find_replica returns
ReplicaNotFound == -1

Last(s) == s[Len(s)]
SeqToSet(s) == {s[i] : i \in 1..Len(s)}

\* ------------------------------------------------ hash_chain_digest.py
\* hashlib.sha256(s.encode()).hexdigest(), taken to be collision free
Sha256(s) == [py |-> "sha256", of |-> s]
\* HashChainBlock.calculate_hash: sha256 of str(data) + str(previous_hash)
calculate_hash(data, previous_hash) == Sha256(<<Str(data), previous_hash>>)
\* HashChainBlock.__init__
HashChainBlock(data, sequence_number, previous_hash, t) ==
    [data |-> data, sequence_number |-> sequence_number, timestamp |-> t,
     previous_hash |-> previous_hash, hash |-> calculate_hash(data, previous_hash)]
\* add_block with a defect: every block is linked to the fixed zero hash
add_block_unlinked(c, block_data, sequence_number, t) ==
    Append(c, HashChainBlock(block_data, sequence_number, PyStr("0"), t))
\* add_block with a defect: the block is numbered with the length of the
\* chain, whatever sequence number the caller gives
add_block_renumbered(c, block_data, sequence_number, t) ==
    LET previous_hash == IF Len(c) = 0 THEN PyStr("0") ELSE Last(c).hash
    IN  Append(c, HashChainBlock(block_data, Len(c), previous_hash, t))
\* HashChainDigest.add_block at time t
add_block(c, block_data, sequence_number, t) ==
    LET previous_hash == IF Len(c) = 0 THEN PyStr("0") ELSE Last(c).hash
    IN  Append(c, HashChainBlock(block_data, sequence_number, previous_hash, t))
\* HashChainDigest.get_last_block (None on an empty chain)
get_last_block(c) == IF Len(c) > 0 THEN Last(c) ELSE None

\* -------------------------------------------------- version_vector.py
\* VersionVector.vector is a dict: a list of <<key, entries>> in insertion order
VersionVectorEntry(replica_id, v, sequence_number, h) ==
    [replica_id |-> replica_id, view |-> v, sequence_number |-> sequence_number, hcd |-> h]
HasKey(vector, id) == \E i \in 1..Len(vector) : vector[i].key = id
KeyIndex(vector, id) == CHOOSE i \in 1..Len(vector) : vector[i].key = id
update_entry(vector, vector_id, entry_id, v, sequence_number, h) ==
    LET e == VersionVectorEntry(entry_id, v, sequence_number, h)
    IN  IF HasKey(vector, vector_id)
        THEN [vector EXCEPT ![KeyIndex(vector, vector_id)].entries = Append(@, e)]
        ELSE Append(vector, [key |-> vector_id, entries |-> <<e>>])
is_empty(vector) == Len(vector) = 0
\* all entries, in the order get_current_system_state visits them
RECURSIVE AllEntries(_, _)
AllEntries(vector, i) ==
    IF i > Len(vector) THEN <<>> ELSE vector[i].entries \o AllEntries(vector, i + 1)
StateKey(e) == <<e.sequence_number, e.hcd>>
\* VersionVector.get_current_system_state: the first key of `counter` (in
\* insertion order) with at least 2f+1 entries, and of these entries the
\* first one with the least replica id; None when there is no such key.
\* current_system_state_index is the place of that entry in AllEntries (0: None)
current_system_state_index(vector, ff) ==
    LET all == AllEntries(vector, 1)
        Matching(i) == {j \in 1..Len(all) : StateKey(all[j]) = StateKey(all[i])}
        Enough == {i \in 1..Len(all) : Cardinality(Matching(i)) >= 2 * ff + 1}
    IN  IF Enough = {} THEN 0
        ELSE LET first == CHOOSE i \in Enough : \A k \in Enough : i <= k
                 group == Matching(first)
             IN  CHOOSE j \in group :
                    \A k \in group :
                       \/ all[j].replica_id < all[k].replica_id
                       \/ (all[j].replica_id = all[k].replica_id /\ j <= k)
get_current_system_state(vector, ff) ==
    LET i == current_system_state_index(vector, ff)
    IN  IF i = 0 THEN None ELSE AllEntries(vector, 1)[i]

\* ------------------------------------------------------- the messages
\* RequestMessage.__init__
RequestMessage(operation, timestamp, client_id, current_system_state) ==
    [message_type |-> "REQUEST", operation |-> operation, timestamp |-> timestamp,
     client_id |-> client_id, current_system_state |-> current_system_state]
\* PrePrepareMessage.__init__
PrePrepareMessage(primary_replica_id, v, sequence_number, request_msg) ==
    [message_type |-> "PRE_PREPARE", primary_replica_id |-> primary_replica_id,
     view |-> v, sequence_number |-> sequence_number, request_msg |-> request_msg]
\* PrepareMessage.__init__
PrepareMessage(replica_id, v, sequence_number, request_msg) ==
    [message_type |-> "PREPARE", replica_id |-> replica_id,
     view |-> v, sequence_number |-> sequence_number, request_msg |-> request_msg]
\* CommitMessage.__init__
CommitMessage(replica_id, v, sequence_number, h) ==
    [message_type |-> "COMMIT", replica_id |-> replica_id,
     view |-> v, sequence_number |-> sequence_number, hcd |-> h]
\* reply_message.py: Entry.__init__ and ReplyMessage.__init__.  Entry defines
\* no __eq__, so two Entry objects are equal only when they are one object:
\* `object` is the identity of the Entry, given by whoever builds the message
Entry(replica_id, v, sequence_number, h, object) ==
    [replica_id |-> replica_id, view |-> v, sequence_number |-> sequence_number,
     hcd |-> h, object |-> object]
ReplyMessage(client_id, timestamp, result, replica_id, v, sequence_number, h, object) ==
    [message_type |-> "REPLY", client_id |-> client_id, timestamp |-> timestamp,
     result |-> result, entry |-> Entry(replica_id, v, sequence_number, h, object)]

\* Message.to_string followed by the receiver's deserialize_message.  The
\* wire text of a field that is an object is str(object), and the receiver
\* keeps it as a str; int and float fields are parsed back (float(str(t)) = t
\* for every Python float t).  A REPLY is deserialized by the client, which
\* builds a new Entry object for it: the address given by the receiver.
deserialize_message(msg) ==
    CASE msg.message_type = "REQUEST" ->
           [msg EXCEPT !.current_system_state = Str(@)]
      [] msg.message_type \in {"PRE_PREPARE", "PREPARE"} ->
           [msg EXCEPT !.request_msg = Str(@)]
      [] msg.message_type = "COMMIT" ->
           [msg EXCEPT !.hcd = Str(@)]
      [] msg.message_type = "REPLY" ->
           [msg EXCEPT !.entry.hcd = Str(@), !.result = Str(@)]
      [] OTHER -> msg

\* ---------------------------------------------------------- transport
\* Replica.find_replica / Replica.find_client
find_replica(r, replica_id) ==
    IF replica_id \in SeqToSet(replicas[replicasOf[r]]) THEN replica_id ELSE ReplicaNotFound
ClientNotFound == -1
find_client(client_id) == IF client_id \in Cli THEN client_id ELSE ClientNotFound

\* Replica.multicast_message sends to the peers in list order and dies on the
\* first element that is no Replica ('Replica not found' has no get_host).
\* FaultyReplica.multicast_message picks valid / invalid / delay / skip per
\* peer: an invalid datagram is thrown away by the receiver's
\* deserialize_message, so only the valid and the delayed ones are queued.
\* A partitioned replica reaches nobody.
FirstBad(list) ==
    IF \E i \in 1..Len(list) : list[i] = ReplicaNotFound
    THEN CHOOSE i \in 1..Len(list) :
            /\ list[i] = ReplicaNotFound
            /\ \A j \in 1..(i - 1) : list[j] # ReplicaNotFound
    ELSE Len(list) + 1
Reached(list) == {list[i] : i \in 1..(FirstBad(list) - 1)}
multicast_message(r, list) ==
    LET dies == FirstBad(list) <= Len(list)
    IN  CASE kind[r] = "Replica" -> {[to |-> Reached(list), dies |-> dies]}
          [] kind[r] = "FaultyReplica" ->
               {[to |-> T, dies |-> d] : T \in SUBSET (SeqToSet(list) \ {ReplicaNotFound}),
                                         d \in (IF dies THEN BOOLEAN ELSE {FALSE})}
          [] kind[r] = "Partitioned" -> {[to |-> {}, dies |-> dies]}
\* Replica.deserialize_message returns an exception for every VIEW_CHANGE
\* (int('None') for its "Sequence Number: None"), every NEW_VIEW (int of a
\* list) and every CHECKPOINT ("Invalid message type"); _listen_thread then
\* goes on to the next datagram
deserialize_fails(msg) == msg.message_type \in {"VIEW_CHANGE", "NEW_VIEW", "CHECKPOINT"}
\* the datagram msg queued at the socket of every replica in `to`; a datagram
\* the receiver cannot deserialize is thrown away on arrival
Queue(buffers, to, msg) ==
    [p \in DOMAIN buffers |->
        IF p \in to /\ ~deserialize_fails(msg)
        THEN Append(buffers[p], deserialize_message(msg)) ELSE buffers[p]]

\* Replica.start_timer
start_timer(t) == IF t = "None" THEN "started" ELSE t

\* --------------------------------------------------------------- time
\* the value of time.time() moves on
Tick ==
    /\ now < MaxTime
    /\ now' = now + 1
    /\ UNCHANGED <<configVars, handling, replicas, replicaVars, clientVars, lost, chain, vv>>

\* ------------------------------------------------------------- client
Operations == {"log in", "log out"}
\* Client.make_request and Client.multicast_request
make_request(c, operation) ==
    /\ requests_made[c] < Len(calls[c])
    /\ operation = calls[c][requests_made[c] + 1]
    /\ LET timestamp == now
           i == current_system_state_index(client_version_vector[c], 0)
           current_system_state ==
               IF i = 0 THEN None ELSE Object("VersionVectorEntry", <<c, i>>)
           request == RequestMessage(operation, timestamp, c, current_system_state)
           to == SeqToSet(replicas[clientReplicasOf[c]])
       IN  /\ pending_requests' = [pending_requests EXCEPT ![c] = Append(@, request)]
           /\ socket_buffer' = Queue(socket_buffer, to, request)
    /\ requests_made' = [requests_made EXCEPT ![c] = @ + 1]
    /\ UNCHANGED <<configVars, handling, replicas, view, primary, reply_cache, version_vector, hcd,
                   accepted_requests, received_pre_prepare_messages,
                   received_prepare_messages, received_commit_messages,
                   pending_checkpoints, timer, listening, executed, sent,
                   received_replies, client_version_vector, client_listening,
                   client_socket_buffer, consensus, now, lost, chain, vv>>

\* ------------------------------------------------------------ replica
\* the listener thread of r, which is inside no handler, takes the next
\* datagram of the given type
Takes(r, message_type) ==
    /\ listening[r]
    /\ handling[r] = None
    /\ socket_buffer[r] # <<>>
    /\ Head(socket_buffer[r]).message_type = message_type

\* Replica.receive_request
receive_request(r) ==
    /\ Takes(r, "REQUEST")
    /\ LET data == Head(socket_buffer[r])
           taken == [socket_buffer EXCEPT ![r] = Tail(@)]
           client_a == find_client(data.client_id)
           cached == IF client_a = ClientNotFound THEN None ELSE reply_cache[r][client_a]
           crash == /\ listening' = [listening EXCEPT ![r] = FALSE]
                    /\ socket_buffer' = taken
                    /\ UNCHANGED <<accepted_requests, timer, sent>>
           drop == /\ socket_buffer' = taken
                   /\ UNCHANGED <<accepted_requests, timer, listening, sent>>
       IN  IF cached # None
           THEN crash                  \* the cached reply is a str: it has no to_string
           ELSE IF hcd[r] # <<>> /\ data.timestamp < Last(hcd[r]).timestamp
           THEN drop
           ELSE IF hcd[r] # <<>> /\ data.timestamp = Last(hcd[r]).timestamp
           THEN crash                  \* send_reply(client_id, None)
           ELSE IF client_a = ClientNotFound
           THEN crash                  \* 'Client not found'.get_version_vector()
           ELSE IF get_current_system_state(client_version_vector[client_a], f) # None
           THEN crash                  \* reply_cache.get_reply(...) is None: no get_entry
           ELSE /\ accepted_requests' = [accepted_requests EXCEPT ![r] = Append(@, data)]
                /\ IF primary[r]
                   THEN \E m \in multicast_message(r, replicas[replicasOf[r]]) :
                          LET sequence_number ==
                                  IF hcd[r] = <<>> THEN 0
                                  ELSE Last(hcd[r]).sequence_number + 1
                              request == RequestObject(r, Len(accepted_requests[r]) + 1)
                              pre_prepare_message ==
                                  PrePrepareMessage(r, view[r], sequence_number, request)
                          IN  /\ socket_buffer' = Queue(taken, m.to, pre_prepare_message)
                              /\ sent' = [sent EXCEPT ![r] = @ \cup {pre_prepare_message}]
                              /\ listening' = [listening EXCEPT ![r] = ~m.dies]
                              /\ timer' = IF m.dies THEN timer
                                          ELSE [timer EXCEPT ![r] = start_timer(@)]
                   ELSE /\ socket_buffer' = taken
                        /\ timer' = [timer EXCEPT ![r] = start_timer(@)]
                        /\ UNCHANGED <<listening, sent>>
    /\ UNCHANGED <<configVars, handling, replicas, view, primary, reply_cache, version_vector, hcd,
                   received_pre_prepare_messages, received_prepare_messages,
                   received_commit_messages, pending_checkpoints, executed,
                   clientVars, now, lost, chain, vv>>

\* Replica.find_replica walks the peer list and asks every element for its id:
\* it dies on the str 'Replica not found' when that comes before the replica
find_replica_dies(r, replica_id) ==
    LET list == replicas[replicasOf[r]]
    IN  /\ FirstBad(list) <= Len(list)
        /\ \A i \in 1..(FirstBad(list) - 1) : list[i] # replica_id
\* `replica = self.find_replica(id); if replica not in self.replicas:
\* self.add_replica(replica)`: an unknown id puts the str 'Replica not found'
\* into the peer list
add_unknown_sender(r, replica_id) ==
    LET list == replicas[replicasOf[r]]
    IN  IF find_replica(r, replica_id) = ReplicaNotFound
        THEN Append(list, ReplicaNotFound)
        ELSE list

\* the check of receive_pre_prepare with a defect: the `return` is missing,
\* so no PRE_PREPARE is ever turned away for the request it names
pre_prepare_conflicts_never(stored, data) == FALSE
\* Replica.receive_pre_prepare: a stored PRE_PREPARE has the sequence number
\* of data and another request
pre_prepare_conflicts(stored, data) ==
    \E i \in 1..Len(stored) :
       /\ stored[i].sequence_number = data.sequence_number
       /\ stored[i].request_msg # data.request_msg

\* Replica.receive_pre_prepare
receive_pre_prepare(r) ==
    /\ Takes(r, "PRE_PREPARE")
    /\ LET data == Head(socket_buffer[r])
           taken == [socket_buffer EXCEPT ![r] = Tail(@)]
           list == add_unknown_sender(r, data.primary_replica_id)
           first == IF received_pre_prepare_messages[r] = <<>>
                    THEN <<data>> ELSE received_pre_prepare_messages[r]
           conflicting == pre_prepare_conflicts(first, data)
           outside == /\ Len(hcd[r]) > 0
                      /\ \/ data.sequence_number > Last(hcd[r]).sequence_number + 2
                         \/ data.sequence_number < Last(hcd[r]).sequence_number - 2
       IN  IF find_replica_dies(r, data.primary_replica_id)
           THEN /\ socket_buffer' = taken
                /\ listening' = [listening EXCEPT ![r] = FALSE]
                /\ UNCHANGED <<replicas, received_pre_prepare_messages, sent>>
           ELSE
           /\ replicas' = [replicas EXCEPT ![replicasOf[r]] = list]
           /\ IF conflicting \/ outside
              THEN /\ received_pre_prepare_messages' =
                          [received_pre_prepare_messages EXCEPT ![r] = first]
                   /\ socket_buffer' = taken
                   /\ UNCHANGED <<listening, sent>>
              ELSE \E m \in multicast_message(r, list) :
                     LET prepare_message ==
                             PrepareMessage(r, view[r], data.sequence_number, data.request_msg)
                     IN  /\ received_pre_prepare_messages' =
                                [received_pre_prepare_messages EXCEPT ![r] = Append(first, data)]
                         /\ socket_buffer' = Queue(taken, m.to, prepare_message)
                         /\ sent' = [sent EXCEPT ![r] = @ \cup {prepare_message}]
                         /\ listening' = [listening EXCEPT ![r] = ~m.dies]
    /\ UNCHANGED <<configVars, handling, view, primary, reply_cache, version_vector, hcd,
                   accepted_requests, received_prepare_messages, received_commit_messages,
                   pending_checkpoints, timer, executed, clientVars, now, lost, chain, vv>>

\* Replica.receive_prepare: has this replica, with `prepares` and `pre_prepares`
\* stored, reached the point where it appends to the chain and commits?
prepared(prepares, pre_prepares, data, ff) ==
    LET total_matching_prepare ==
            Cardinality({i \in 1..Len(prepares) : prepares[i].request_msg = data.request_msg})
        total_matching_sequence_number ==
            Cardinality({i \in 1..Len(pre_prepares) :
                            pre_prepares[i].sequence_number = data.sequence_number})
    IN  total_matching_prepare >= ff * 2 /\ total_matching_sequence_number >= ff * 2

\* Replica.receive_prepare (FaultyReplica.receive_prepare does nothing)
receive_prepare(r) ==
    /\ Takes(r, "PREPARE")
    /\ LET data == Head(socket_buffer[r])
           taken == [socket_buffer EXCEPT ![r] = Tail(@)]
           list == add_unknown_sender(r, data.replica_id)
           prepares == Append(received_prepare_messages[r], data)
       IN  IF kind[r] = "FaultyReplica"
           THEN /\ socket_buffer' = taken
                /\ UNCHANGED <<replicas, received_prepare_messages, hcd, version_vector,
                               listening, sent>>
           ELSE IF find_replica_dies(r, data.replica_id)
           THEN /\ socket_buffer' = taken
                /\ listening' = [listening EXCEPT ![r] = FALSE]
                /\ UNCHANGED <<replicas, received_prepare_messages, hcd, version_vector, sent>>
           ELSE /\ replicas' = [replicas EXCEPT ![replicasOf[r]] = list]
                /\ received_prepare_messages' = [received_prepare_messages EXCEPT ![r] = prepares]
                /\ IF prepared(prepares, received_pre_prepare_messages[r], data, f)
                   THEN \E m \in multicast_message(r, list) :
                          LET commit_message ==
                                  CommitMessage(r, view[r], data.sequence_number, HcdObject(r))
                          IN  /\ hcd' = [hcd EXCEPT ![r] =
                                            add_block(@, data.request_msg, data.sequence_number, now)]
                              /\ version_vector' = [version_vector EXCEPT ![r] =
                                            update_entry(@, r, r, view[r], data.sequence_number,
                                                         HcdObject(r))]
                              /\ socket_buffer' = Queue(taken, m.to, commit_message)
                              /\ sent' = [sent EXCEPT ![r] = @ \cup {commit_message}]
                              /\ listening' = [listening EXCEPT ![r] = ~m.dies]
                   ELSE /\ socket_buffer' = taken
                        /\ UNCHANGED <<hcd, version_vector, listening, sent>>
    /\ UNCHANGED <<configVars, handling, view, primary, reply_cache, accepted_requests,
                   received_pre_prepare_messages, received_commit_messages,
                   pending_checkpoints, timer, executed, clientVars, now, lost, chain, vv>>

\* Replica.receive_commit: the number of stored commits that match data
matching_commits(commits, data) ==
    Cardinality({i \in 1..Len(commits) :
                    /\ commits[i].sequence_number = data.sequence_number
                    /\ commits[i].hcd = data.hcd})
\* Replica.receive_commit: the request it executes and answers
msg_n(accepted) == Last(accepted)
\* the digest of the replica's chain (None while the chain is empty)
Digest(c) == IF c = <<>> THEN None ELSE Last(c).hash

\* Replica.receive_commit, with Replica.execute_operation, update_reply_cache
\* and send_reply (FaultyReplica.send_reply sends "INCORRECT_REPLY", which the
\* client's deserialize_message throws away).  The CHECKPOINT it multicasts is
\* thrown away by every receiver's deserialize_message ("Invalid message type").
receive_commit(r) ==
    /\ Takes(r, "COMMIT")
    /\ LET data == Head(socket_buffer[r])
           list == add_unknown_sender(r, data.replica_id)
           vector == update_entry(version_vector[r], r, data.replica_id, view[r],
                                  data.sequence_number, data.hcd)
           commits == Append(received_commit_messages[r], data)
           total == matching_commits(commits, data)
       IN  IF find_replica_dies(r, data.replica_id)
           THEN /\ socket_buffer' = [socket_buffer EXCEPT ![r] = Tail(@)]
                /\ listening' = [listening EXCEPT ![r] = FALSE]
                /\ UNCHANGED <<replicas, version_vector, received_commit_messages, executed,
                               reply_cache, client_socket_buffer, pending_checkpoints, sent>>
           ELSE
           /\ socket_buffer' = [socket_buffer EXCEPT ![r] = Tail(@)]
           /\ replicas' = [replicas EXCEPT ![replicasOf[r]] = list]
           /\ version_vector' = [version_vector EXCEPT ![r] = vector]
           /\ received_commit_messages' = [received_commit_messages EXCEPT ![r] = commits]
           /\ IF total < (f * 2) + 1
              THEN UNCHANGED <<executed, reply_cache, client_socket_buffer,
                               pending_checkpoints, listening, sent>>
              ELSE IF accepted_requests[r] = <<>>
              THEN /\ listening' = [listening EXCEPT ![r] = FALSE]   \* accepted_requests[0]
                   /\ UNCHANGED <<executed, reply_cache, client_socket_buffer,
                                  pending_checkpoints, sent>>
              ELSE LET request == msg_n(accepted_requests[r])
                       client_id == request.client_id
                       reply_message ==
                           ReplyMessage(client_id, request.timestamp, True, r, view[r],
                                        data.sequence_number, HcdObject(r), <<r, 0>>)
                       checkpoint == data.sequence_number % CHECKPOINT_INTERVAL = 0
                       \* the checkpoint loop reads the version vector of every peer
                       loop_dies == \E i \in 1..Len(list) :
                                       \/ list[i] = ReplicaNotFound
                                       \/ is_empty(IF list[i] = r THEN vector
                                                   ELSE version_vector[list[i]])
                   IN  /\ executed' = [executed EXCEPT ![r] = Append(@,
                              [operation |-> request.operation, client_id |-> client_id,
                               timestamp |-> request.timestamp, view |-> view[r],
                               sequence_number |-> data.sequence_number,
                               digest |-> Digest(hcd[r])])]
                       /\ reply_cache' = [reply_cache EXCEPT ![r][client_id] =
                              PyStr(deserialize_message(reply_message))]
                       /\ IF find_client(client_id) = ClientNotFound
                          THEN /\ listening' = [listening EXCEPT ![r] = FALSE]
                               /\ UNCHANGED <<client_socket_buffer, pending_checkpoints, sent>>
                          ELSE /\ client_socket_buffer' =
                                     IF kind[r] = "FaultyReplica" THEN client_socket_buffer
                                     ELSE Queue(client_socket_buffer, {client_id}, reply_message)
                               /\ sent' = [sent EXCEPT ![r] = @ \cup {reply_message}]
                               /\ IF checkpoint /\ loop_dies
                                  THEN /\ listening' = [listening EXCEPT ![r] = FALSE]
                                       /\ UNCHANGED pending_checkpoints
                                  ELSE /\ pending_checkpoints' =
                                             IF checkpoint
                                             THEN [pending_checkpoints EXCEPT ![r] =
                                                      @ \cup {data.sequence_number}]
                                             ELSE pending_checkpoints
                                       /\ UNCHANGED listening
    /\ UNCHANGED <<configVars, handling, view, primary, hcd, accepted_requests,
                   received_pre_prepare_messages, received_prepare_messages, timer,
                   pending_requests, received_replies, client_version_vector,
                   client_listening, consensus, requests_made, now, lost, chain, vv>>

\* Replica.send_view_change, run by the Timer thread VIEW_TIMEOUT seconds
\* after start_timer: nothing while the version vector is empty.  The Timer
\* thread dies on an exception; the listener thread goes on.  start_timer at
\* its end finds self.timer set and starts nothing.
send_view_change(r) ==
    /\ timer[r] = "started"
    /\ timer' = [timer EXCEPT ![r] = "expired"]
    /\ LET vector == version_vector[r]
           entries == vector[KeyIndex(vector, r)].entries
           P == {[pre_prepare |-> received_pre_prepare_messages[r][i],
                  prepares |-> Cardinality({j \in 1..Len(received_prepare_messages[r]) :
                                  received_prepare_messages[r][j].sequence_number =
                                  received_pre_prepare_messages[r][i].sequence_number})] :
                 i \in {k \in 1..Len(received_pre_prepare_messages[r]) :
                          /\ received_pre_prepare_messages[r][k].sequence_number >
                                Last(hcd[r]).sequence_number
                          /\ Len(received_prepare_messages[r]) > 2 * f}}
           dies == \/ Len(entries) < r + 1                  \* get_entries(r)[r]
                   \/ /\ received_pre_prepare_messages[r] # <<>>
                      /\ hcd[r] = <<>>                      \* get_last_block() is None
       IN  IF is_empty(vector) \/ dies
           THEN UNCHANGED <<sent, socket_buffer>>
           ELSE \E m \in multicast_message(r, replicas[replicasOf[r]]) :
                  LET view_change_message ==
                          [message_type |-> "VIEW_CHANGE", view |-> view[r] + 1,
                           replica_id |-> r, version_vector_entry |-> entries[r + 1],
                           P |-> P]
                  IN  /\ sent' = [sent EXCEPT ![r] = @ \cup {view_change_message}]
                      /\ socket_buffer' = Queue(socket_buffer, m.to, view_change_message)
    /\ UNCHANGED <<configVars, handling, replicas, view, primary, reply_cache, version_vector, hcd,
                   accepted_requests, received_pre_prepare_messages,
                   received_prepare_messages, received_commit_messages,
                   pending_checkpoints, listening, executed,
                   clientVars, now, lost, chain, vv>>

\* ------------------------------------------------------------- client
\* Client.handle_reply: the replies it counts for reply_message
matching_replies(pending, replies, reply_message) ==
    LET requests == {i \in 1..Len(pending) : pending[i].timestamp = reply_message.timestamp}
        matching == {j \in 1..Len(replies) :
                        /\ replies[j].timestamp = reply_message.timestamp
                        /\ replies[j].client_id = reply_message.client_id
                        /\ replies[j].result = reply_message.result
                        /\ replies[j].entry = reply_message.entry}
    IN  Cardinality(requests) * Cardinality(matching)
\* the list without its i-th element
Remove(list, i) == [j \in 1..(Len(list) - 1) |-> IF j < i THEN list[j] ELSE list[j + 1]]
\* the version vector after update_entry for replies[i..]
RECURSIVE update_entries(_, _, _, _)
update_entries(vector, c, replies, i) ==
    IF i > Len(replies) THEN vector
    ELSE update_entries(update_entry(vector, c, replies[i].entry.replica_id,
                                     replies[i].entry.view, replies[i].entry.sequence_number,
                                     replies[i].entry.hcd),
                        c, replies, i + 1)

\* Client._listen_thread and Client.handle_reply.  deserialize_message builds a
\* new ReplyMessage, and with it a new Entry object, for every datagram.
handle_reply(c) ==
    /\ client_listening[c]
    /\ client_socket_buffer[c] # <<>>
    /\ client_socket_buffer' = [client_socket_buffer EXCEPT ![c] = Tail(@)]
    /\ LET reply_message ==
               [Head(client_socket_buffer[c]) EXCEPT
                   !.entry.object = <<c, Len(received_replies[c]) + 1>>]
           replies == Append(received_replies[c], reply_message)
           total == matching_replies(pending_requests[c], replies, reply_message)
           founded_request ==
               CHOOSE i \in 1..Len(pending_requests[c]) :
                  /\ pending_requests[c][i].timestamp = reply_message.timestamp
                  /\ \A k \in 1..Len(pending_requests[c]) :
                        pending_requests[c][k].timestamp = reply_message.timestamp => k <= i
           vector == update_entries(client_version_vector[c], c, replies, 1)
           state == get_current_system_state(vector, f)
       IN  /\ received_replies' = [received_replies EXCEPT ![c] = replies]
           /\ IF total >= (2 * f) + 1
              THEN /\ pending_requests' = [pending_requests EXCEPT ![c] = Remove(@, founded_request)]
                   /\ client_version_vector' = [client_version_vector EXCEPT ![c] = vector]
                   /\ IF state = None
                      THEN /\ client_listening' = [client_listening EXCEPT ![c] = FALSE]
                           /\ UNCHANGED consensus            \* None has no get_hcd
                      ELSE IF state.hcd = reply_message.entry.hcd
                      THEN /\ consensus' = [consensus EXCEPT ![c] = Append(@, reply_message)]
                           /\ client_listening' = [client_listening EXCEPT ![c] = FALSE]  \* sys.exit()
                      ELSE UNCHANGED <<consensus, client_listening>>
              ELSE UNCHANGED <<pending_requests, client_version_vector, consensus,
                               client_listening>>
    /\ UNCHANGED <<configVars, handling, replicas, replicaVars, requests_made, now, lost, chain, vv>>

\* ---------------------------------------------------------- transport
\* the datagram transport loses the next datagram of a replica or of a client
lose ==
    /\ lost < MaxLost
    /\ lost' = lost + 1
    /\ \/ \E r \in Rep :
             /\ socket_buffer[r] # <<>>
             /\ socket_buffer' = [socket_buffer EXCEPT ![r] = Tail(@)]
             /\ UNCHANGED client_socket_buffer
       \/ \E c \in Cli :
             /\ client_socket_buffer[c] # <<>>
             /\ client_socket_buffer' = [client_socket_buffer EXCEPT ![c] = Tail(@)]
             /\ UNCHANGED socket_buffer
    /\ UNCHANGED <<configVars, handling, replicas, view, primary, reply_cache, version_vector, hcd,
                   accepted_requests, received_pre_prepare_messages,
                   received_prepare_messages, received_commit_messages,
                   pending_checkpoints, timer, listening, executed, sent,
                   pending_requests, received_replies, client_version_vector,
                   client_listening, consensus, requests_made, now, chain, vv>>

\* ------------------------------------------------------ configurations
\* Replica.__init__: primary
is_primary_at_construction(v, ff, replica_id) == v % (3 * (ff + 1)) = replica_id

\* the state after the constructors and the add_replica calls of a scenario
\* whose replicas are built with the argument view = v: the replicas ids (of
\* the classes kinds), the clients clis, peer lists lists, the calls of
\* make_request in script, and every buffer empty
ConstructedInView(v, ff, kinds, clis, lists, listOf, clientListOf, script) ==
    /\ f = ff
    /\ calls = script
    /\ kind = kinds
    /\ view = [r \in DOMAIN kinds |-> v]
    /\ primary = [r \in DOMAIN kinds |-> is_primary_at_construction(v, ff, r)]
    /\ replicas = lists
    /\ replicasOf = listOf
    /\ clientReplicasOf = clientListOf
    /\ reply_cache = [r \in DOMAIN kinds |-> [c \in clis |-> None]]
    /\ version_vector = [r \in DOMAIN kinds |-> <<>>]
    /\ hcd = [r \in DOMAIN kinds |-> <<>>]
    /\ accepted_requests = [r \in DOMAIN kinds |-> <<>>]
    /\ received_pre_prepare_messages = [r \in DOMAIN kinds |-> <<>>]
    /\ received_prepare_messages = [r \in DOMAIN kinds |-> <<>>]
    /\ received_commit_messages = [r \in DOMAIN kinds |-> <<>>]
    /\ pending_checkpoints = [r \in DOMAIN kinds |-> {}]
    /\ timer = [r \in DOMAIN kinds |-> "None"]
    /\ listening = [r \in DOMAIN kinds |-> TRUE]
    /\ handling = [r \in DOMAIN kinds |-> None]
    /\ socket_buffer = [r \in DOMAIN kinds |-> <<>>]
    /\ executed = [r \in DOMAIN kinds |-> <<>>]
    /\ sent = [r \in DOMAIN kinds |-> {}]
    /\ pending_requests = [c \in clis |-> <<>>]
    /\ received_replies = [c \in clis |-> <<>>]
    /\ client_version_vector = [c \in clis |-> <<>>]
    /\ client_listening = [c \in clis |-> TRUE]
    /\ client_socket_buffer = [c \in clis |-> <<>>]
    /\ consensus = [c \in clis |-> <<>>]
    /\ requests_made = [c \in clis |-> 0]
    /\ now = 0
    /\ lost = 0
    /\ chain = [d \in 1..2 |-> <<>>]
    /\ vv = [vector |-> <<>>, f |-> 0, current_state |-> None]

\* the scenarios leave the `view` argument of the constructors at its default
Constructed(ff, kinds, clis, lists, listOf, clientListOf, script) ==
    ConstructedInView(0, ff, kinds, clis, lists, listOf, clientListOf, script)

\* tests/test_normal_scenario.py: f = 0, replica0 and replica1 are built with
\* the default `replicas` argument, so both hold the one default list of
\* Replica.__init__, which the add_replica calls fill with both replicas.
\* The client asks for 'log in' and then for a second operation.
Init ==
    Constructed(0, [r \in {0, 1} |-> "Replica"], {0},
                [Replica |-> <<0, 1>>, Client |-> <<0, 1>>],
                [r \in {0, 1} |-> "Replica"], [c \in {0} |-> "Client"],
                [c \in {0} |-> <<"log in", "log out">>])

Next ==
    \/ \E c \in Cli, operation \in Operations : make_request(c, operation)
    \/ \E c \in Cli : handle_reply(c)
    \/ \E r \in Rep : receive_request(r)
    \/ \E r \in Rep : receive_pre_prepare(r)
    \/ \E r \in Rep : receive_prepare(r)
    \/ \E r \in Rep : receive_commit(r)

Spec == Init /\ [][Next]_vars

\* the same scenario on a transport that loses datagrams
NextLoss == Next \/ lose

SpecLoss == Init /\ [][NextLoss]_vars

\* the client request of an execute_operation call
Request(e) == <<e.client_id, e.timestamp, e.operation>>

\* C1: two replicas that execute at the same view and sequence number
\* executed the same client request
C1_Agreement ==
    \A r1, r2 \in Rep :
       \A i \in 1..Len(executed[r1]), j \in 1..Len(executed[r2]) :
          (/\ r1 # r2
           /\ executed[r1][i].view = executed[r2][j].view
           /\ executed[r1][i].sequence_number = executed[r2][j].sequence_number)
          => Request(executed[r1][i]) = Request(executed[r2][j])

\* C7: the sequence numbers of the blocks of a replica's chain are strictly
\* increasing, so no two blocks carry one sequence number
C7_OneBlockPerSequenceNumber ==
    \A r \in Rep : \A i, j \in 1..Len(hcd[r]) :
       i < j => hcd[r][i].sequence_number < hcd[r][j].sequence_number

\* tests/test_normal_scenario.py as it is written: one make_request call,
\* and the timers the replicas start
InitTest ==
    Constructed(0, [r \in {0, 1} |-> "Replica"], {0},
                [Replica |-> <<0, 1>>, Client |-> <<0, 1>>],
                [r \in {0, 1} |-> "Replica"], [c \in {0} |-> "Client"],
                [c \in {0} |-> <<"log in">>])

NextTest ==
    \/ \E c \in Cli, operation \in Operations : make_request(c, operation)
    \/ \E c \in Cli : handle_reply(c)
    \/ \E r \in Rep : receive_request(r)
    \/ \E r \in Rep : receive_pre_prepare(r)
    \/ \E r \in Rep : receive_prepare(r)
    \/ \E r \in Rep : receive_commit(r)
    \/ \E r \in Rep : send_view_change(r)

SpecTest == InitTest /\ [][NextTest]_vars

\* C2: a replica calls execute_operation at most once for a request, that is
\* for a pair of client id and timestamp
C2_AtMostOnce ==
    \A r \in Rep : \A i, j \in 1..Len(executed[r]) :
       (/\ executed[r][i].client_id = executed[r][j].client_id
        /\ executed[r][i].timestamp = executed[r][j].timestamp)
       => i = j

\* scenario S1: four correct replicas, f = 1, one client, one request
InitS1 ==
    Constructed(1, [r \in 0..3 |-> "Replica"], {0},
                [Replica |-> <<0, 1, 2, 3>>, Client |-> <<0, 1, 2, 3>>],
                [r \in 0..3 |-> "Replica"], [c \in {0} |-> "Client"],
                [c \in {0} |-> <<"log in">>])

\* The four-replica scenarios are explored under one scheduler: a listener
\* thread runs when no listener thread of a replica with a lower id has a
\* datagram waiting.  The client thread, the timers and the transport are not
\* scheduled.  Every behaviour of this scheduler is a behaviour of the program.
Scheduled(r) ==
    \A p \in Rep : p < r => ~(listening[p] /\ socket_buffer[p] # <<>>)

NextS1 ==
    \/ \E c \in Cli, operation \in Operations : make_request(c, operation)
    \/ \E c \in Cli : handle_reply(c)
    \/ \E r \in Rep : Scheduled(r) /\ receive_request(r)
    \/ \E r \in Rep : Scheduled(r) /\ receive_pre_prepare(r)
    \/ \E r \in Rep : Scheduled(r) /\ receive_prepare(r)
    \/ \E r \in Rep : Scheduled(r) /\ receive_commit(r)

SpecS1 == InitS1 /\ [][NextS1]_vars

\* every thread that can take a step keeps running: the script of the client,
\* the listener thread of the client and the listener threads of the replicas
FairS1 ==
    /\ WF_vars(\E c \in Cli, operation \in Operations : make_request(c, operation))
    /\ WF_vars(\E c \in Cli : handle_reply(c))
    /\ WF_vars(\E r \in Rep : Scheduled(r) /\ receive_request(r))
    /\ WF_vars(\E r \in Rep : Scheduled(r) /\ receive_pre_prepare(r))
    /\ WF_vars(\E r \in Rep : Scheduled(r) /\ receive_prepare(r))
    /\ WF_vars(\E r \in Rep : Scheduled(r) /\ receive_commit(r))

FairSpecS1 == SpecS1 /\ FairS1

\* C3: with no faults and every datagram delivered, the client's request
\* eventually gets its matching replies and the client declares consensus
C3_EventuallyConsensus == <>(\A c \in Cli : consensus[c] # <<>>)

\* the primary is cut off from the network: from now on what it sends
\* reaches nobody
silence(r) ==
    /\ primary[r]
    /\ kind[r] = "Replica"
    /\ kind' = [kind EXCEPT ![r] = "Partitioned"]
    /\ UNCHANGED <<f, replicasOf, clientReplicasOf, calls, handling, replicas, replicaVars,
                   clientVars, now, lost, chain, vv>>

\* scenario S3: scenario S1 with a primary that falls silent at some point,
\* and the timers of the replicas
NextS3 ==
    \/ NextS1
    \/ \E r \in Rep : silence(r)
    \/ \E r \in Rep : send_view_change(r)

SpecS3 == InitS1 /\ [][NextS3]_vars

\* the threads keep running, and every timer that was started fires
FairSpecS3 ==
    SpecS3 /\ FairS1 /\ \A r \in 0..3 : WF_vars(send_view_change(r))

\* the primary is silent, the request is made and no replica has executed it
SilentPrimary ==
    /\ \E r \in Rep : primary[r] /\ kind[r] = "Partitioned"
    /\ \A c \in Cli : requests_made[c] = 1
    /\ \A r \in Rep : executed[r] = <<>> /\ received_pre_prepare_messages[r] = <<>>

\* C8: when the primary is silent, the replicas move to view 1 and the
\* request is executed and answered there
C8_CommitsInViewOne ==
    SilentPrimary ~> (\E r \in Rep : \E i \in 1..Len(executed[r]) : executed[r][i].view = 1)

\* scenario S2: f = 1, three replicas and a FaultyReplica, built the way
\* tests/test_faulty_replica_scenario.py builds them: the replicas share the
\* default list of Replica.__init__, the FaultyReplica holds the default
\* list of FaultyReplica.__init__
InitS2 ==
    Constructed(1, [r \in 0..3 |-> IF r = 3 THEN "FaultyReplica" ELSE "Replica"], {0},
                [Replica |-> <<1, 2, 3, 0>>, FaultyReplica |-> <<0, 1, 2>>,
                 Client |-> <<0, 1, 2, 3>>],
                [r \in 0..3 |-> IF r = 3 THEN "FaultyReplica" ELSE "Replica"],
                [c \in {0} |-> "Client"],
                [c \in {0} |-> <<"log in">>])

SpecS2 == InitS2 /\ [][NextS1]_vars

FairSpecS2 == SpecS2 /\ FairS1

\* C9: with one faulty backup the client still comes to hold three replies
\* and declares consensus
C9_ConsensusDespiteFaultyBackup ==
    <>(\E c \in Cli : Len(received_replies[c]) >= 3 /\ Len(consensus[c]) >= 1)

\* scenario S6: the primary is Byzantine.  Where Replica.receive_request
\* multicasts one PRE_PREPARE, it sends PRE_PREPARE(view, 1, d1) for the
\* request to the backups in T and PRE_PREPARE(view, 1, d2) for a request
\* of its own making to the other backups; it follows the code otherwise.
equivocate(r, T) ==
    /\ Takes(r, "REQUEST")
    /\ primary[r]
    /\ LET data == Head(socket_buffer[r])
           taken == [socket_buffer EXCEPT ![r] = Tail(@)]
           backups == SeqToSet(replicas[replicasOf[r]]) \ {r}
           d1 == PrePrepareMessage(r, view[r], 1,
                                   RequestObject(r, Len(accepted_requests[r]) + 1))
           d2 == PrePrepareMessage(r, view[r], 1, RequestObject(r, 0))
       IN  /\ T \subseteq backups /\ T # {} /\ T # backups
           /\ accepted_requests' = [accepted_requests EXCEPT ![r] = Append(@, data)]
           /\ socket_buffer' = Queue(Queue(taken, T, d1), backups \ T, d2)
           /\ sent' = [sent EXCEPT ![r] = @ \cup {d1, d2}]
           /\ timer' = [timer EXCEPT ![r] = start_timer(@)]
    /\ UNCHANGED <<configVars, handling, replicas, view, primary, reply_cache, version_vector, hcd,
                   received_pre_prepare_messages, received_prepare_messages,
                   received_commit_messages, pending_checkpoints, listening, executed,
                   clientVars, now, lost, chain, vv>>

NextS6 ==
    \/ NextS1
    \/ \E r \in Rep, T \in SUBSET Rep : Scheduled(r) /\ equivocate(r, T)

SpecS6 == InitS1 /\ [][NextS6]_vars

\* the sequence numbers for which a primary has sent two PRE_PREPAREs with
\* different requests
Equivocated ==
    {m1.sequence_number : m1 \in
        {m \in UNION {sent[r] : r \in Rep} :
            /\ m.message_type = "PRE_PREPARE"
            /\ \E m2 \in sent[m.primary_replica_id] :
                  /\ m2.message_type = "PRE_PREPARE"
                  /\ m2.view = m.view
                  /\ m2.sequence_number = m.sequence_number
                  /\ m2.request_msg # m.request_msg}}

\* C10: for a sequence number at which the primary has equivocated, no backup
\* appends a block to its chain or sends a COMMIT
C10_NoPreparedUnderEquivocation ==
    \A r \in Rep : ~primary[r] =>
       /\ \A i \in 1..Len(hcd[r]) : hcd[r][i].sequence_number \notin Equivocated
       /\ \A m \in sent[r] :
             m.message_type = "COMMIT" => m.sequence_number \notin Equivocated

\* ------------------------------------------------- the client alone
\* Replica.send_reply run by a Byzantine replica r: a REPLY to client c whose
\* timestamp and sequence number the replica chooses
send_reply(r, c, timestamp, sequence_number) ==
    /\ Len(received_replies[c]) + Len(client_socket_buffer[c]) < MaxReplies
    /\ client_socket_buffer' =
          Queue(client_socket_buffer, {c},
                ReplyMessage(c, timestamp, True, r, view[r], sequence_number,
                             HcdObject(r), <<r, 0>>))
    /\ UNCHANGED <<configVars, handling, replicas, replicaVars, pending_requests, received_replies,
                   client_version_vector, client_listening, consensus, requests_made,
                   now, lost, chain, vv>>

\* a client of a system with f = 1 that makes three requests, and the replies
\* that Byzantine replicas send to it
InitClient ==
    Constructed(1, [r \in 0..3 |-> "Replica"], {0},
                [Replica |-> <<0, 1, 2, 3>>, Client |-> <<0, 1, 2, 3>>],
                [r \in 0..3 |-> "Replica"], [c \in {0} |-> "Client"],
                [c \in {0} |-> <<"log in", "log out", "log in">>])

NextClient ==
    \/ Tick
    \/ \E c \in Cli, operation \in Operations : make_request(c, operation)
    \/ \E c \in Cli : handle_reply(c)
    \/ \E r \in Rep, c \in Cli, timestamp \in 0..MaxTime :
          send_reply(r, c, timestamp, 0)

SpecClient == InitClient /\ [][NextClient]_vars

\* the replies client c holds that agree with reply_message on timestamp,
\* client id, result, view, sequence number and digest
Agreeing(c, reply_message) ==
    {j \in 1..Len(received_replies[c]) :
        LET reply == received_replies[c][j]
        IN  /\ reply.timestamp = reply_message.timestamp
            /\ reply.client_id = reply_message.client_id
            /\ reply.result = reply_message.result
            /\ reply.entry.view = reply_message.entry.view
            /\ reply.entry.sequence_number = reply_message.entry.sequence_number
            /\ reply.entry.hcd = reply_message.entry.hcd}

\* C4: when a client has declared a request complete, it holds agreeing
\* replies from at least 2f+1 distinct replicas
C4_CompleteOnlyOnQuorum ==
    \A c \in Cli : \A k \in 1..Len(consensus[c]) :
       Cardinality({received_replies[c][j].entry.replica_id :
                       j \in Agreeing(c, consensus[c][k])}) >= 2 * f + 1

\* two clients of a system with f = 0, and the replies that Byzantine
\* replicas send to them
InitFork ==
    Constructed(0, [r \in {0, 1} |-> "Replica"], {0, 1},
                [Replica |-> <<0, 1>>, Client |-> <<0, 1>>],
                [r \in {0, 1} |-> "Replica"], [c \in {0, 1} |-> "Client"],
                [c \in {0, 1} |-> IF c = 0 THEN <<"log in", "log out">> ELSE <<"log in">>])

NextFork ==
    \/ \E c \in Cli, operation \in Operations : make_request(c, operation)
    \/ \E c \in Cli : handle_reply(c)
    \/ \E r \in Rep, c \in Cli : send_reply(r, c, now, 0)

SpecFork == InitFork /\ [][NextFork]_vars

\* Client.handle_reply ends with "Consensus reached", with False, with None or
\* with an exception: the client has no outcome that reports a suspected fork
fork_suspected(c) == FALSE
\* the current system state client c computed in its last handle_reply
current_system_state(c) == get_current_system_state(client_version_vector[c], f)
\* two clients hold different current system states for one sequence number
Forked ==
    \E c1, c2 \in Cli :
       /\ current_system_state(c1) # None
       /\ current_system_state(c2) # None
       /\ current_system_state(c1).sequence_number = current_system_state(c2).sequence_number
       /\ current_system_state(c1).hcd # current_system_state(c2).hcd

\* C5: once two clients hold different current system states for one sequence
\* number, no client declares a request complete unless a client has
\* surfaced a suspected fork
C5_ForkDetectability ==
    [][(Forked /\ \A c \in Cli : ~fork_suspected(c)) => consensus' = consensus]_vars

\* ---------------------------------------------- the hash chain alone
\* the data of the blocks: a request object, as tests/test_hash_chain_digest.py
\* passes it, and the str of a request, as Replica.receive_prepare passes it
BlockData == {RequestObject(0, 1), Str(RequestObject(0, 2))}

\* a call of add_block on the stand-alone digest d
call_add_block(d, block_data, sequence_number) ==
    /\ Len(chain[d]) < MaxChain
    /\ chain' = [chain EXCEPT ![d] = add_block(@, block_data, sequence_number, now)]
    /\ UNCHANGED <<configVars, handling, replicas, replicaVars, clientVars, now, lost, vv>>

NextHCD ==
    \E d \in DOMAIN chain, block_data \in BlockData, sequence_number \in 0..1 :
       call_add_block(d, block_data, sequence_number)

SpecHCD == Init /\ [][NextHCD]_vars

\* all blocks of the stand-alone digests
Blocks == UNION {SeqToSet(chain[d]) : d \in DOMAIN chain}

\* C6: block 0 of a chain has the fixed zero previous hash, every later block
\* has the hash of the block before it as its previous hash, the hash of a
\* block is sha256 of str(data) followed by the previous hash, and two
\* blocks with the same data and previous hash have the same hash
C6_HcdIntegrity ==
    /\ \A d \in DOMAIN chain :
          /\ Len(chain[d]) > 0 => chain[d][1].previous_hash = PyStr("0")
          /\ \A i \in 2..Len(chain[d]) : chain[d][i].previous_hash = chain[d][i - 1].hash
    /\ \A b \in Blocks : b.hash = Sha256(<<Str(b.data), b.previous_hash>>)
    /\ \A b1, b2 \in Blocks :
          (b1.data = b2.data /\ b1.previous_hash = b2.previous_hash) => b1.hash = b2.hash

\* a chain of three blocks with different data, and a second chain whose
\* first block has the data of the first block of the first chain
C6_Witness ==
    /\ Len(chain[1]) = 3
    /\ chain[1][1].data # chain[1][2].data
    /\ chain[1][3].previous_hash = chain[1][2].hash
    /\ Len(chain[2]) >= 1
    /\ chain[2][1].data = chain[1][1].data
    /\ chain[2][1].sequence_number # chain[1][1].sequence_number
    /\ chain[2][1].hash = chain[1][1].hash

\* ------------------------------------------------- the reply cache
\* scenario S4: a REQUEST that replica r has already executed and answered
\* is delivered to it once more (the client's multicast_request run again
\* with the same request, or the datagram transport delivering it twice)
redeliver_request(r) ==
    /\ executed[r] # <<>>
    /\ \A i \in 1..Len(socket_buffer[r]) : socket_buffer[r][i].message_type # "REQUEST"
    /\ \E i \in 1..Len(accepted_requests[r]) :
          /\ \E k \in 1..Len(executed[r]) :
                /\ executed[r][k].client_id = accepted_requests[r][i].client_id
                /\ executed[r][k].timestamp = accepted_requests[r][i].timestamp
                /\ executed[r][k].operation = accepted_requests[r][i].operation
          /\ socket_buffer' = [socket_buffer EXCEPT ![r] = Append(@, accepted_requests[r][i])]
    /\ UNCHANGED <<configVars, handling, replicas, view, primary, reply_cache, version_vector, hcd,
                   accepted_requests, received_pre_prepare_messages,
                   received_prepare_messages, received_commit_messages,
                   pending_checkpoints, timer, listening, executed, sent,
                   clientVars, now, lost, chain, vv>>

\* tests/test_normal_scenario.py with a client that asks twice, a clock that
\* moves on and requests that are delivered again
NextS4 ==
    \/ Tick
    \/ \E c \in Cli, operation \in Operations : make_request(c, operation)
    \/ \E c \in Cli : handle_reply(c)
    \/ \E r \in Rep : Scheduled(r) /\ receive_request(r)
    \/ \E r \in Rep : Scheduled(r) /\ receive_pre_prepare(r)
    \/ \E r \in Rep : Scheduled(r) /\ receive_prepare(r)
    \/ \E r \in Rep : Scheduled(r) /\ receive_commit(r)
    \/ \E r \in Rep : redeliver_request(r)

SpecS4 == Init /\ [][NextS4]_vars

\* ReplyCache.get_reply for the client of the REQUEST replica r takes next
cached_reply(r) == reply_cache[r][Head(socket_buffer[r]).client_id]
\* the REPLY datagram the client of that REQUEST gets when r sends it the
\* cached reply
resends_cached_reply(r) ==
    LET c == Head(socket_buffer[r]).client_id
    IN  /\ Len(client_socket_buffer'[c]) = Len(client_socket_buffer[c]) + 1
        /\ Last(client_socket_buffer'[c]) = cached_reply(r).value
\* replica r puts the REQUEST it takes into accepted_requests
passes_on_to_ordering(r) ==
    accepted_requests'[r] = Append(accepted_requests[r], Head(socket_buffer[r]))

\* C11: a replica that takes a REQUEST sends the cached reply again when the
\* client has a cached reply with the timestamp of the request, does nothing
\* when the cached timestamp is greater, and accepts the request for ordering
\* when the cached timestamp is smaller or the client has no cached reply
C11_ReplyCacheDecision ==
    [][\A r \in Rep :
          receive_request(r) =>
             LET t == Head(socket_buffer[r]).timestamp
             IN  /\ (cached_reply(r) # None /\ t = cached_reply(r).value.timestamp)
                       => resends_cached_reply(r)
                 /\ (cached_reply(r) # None /\ t < cached_reply(r).value.timestamp)
                       => UNCHANGED <<replicas, view, primary, reply_cache, version_vector,
                                      hcd, accepted_requests, received_pre_prepare_messages,
                                      received_prepare_messages, received_commit_messages,
                                      listening, executed, sent, clientVars>>
                 /\ (cached_reply(r) = None \/ t > cached_reply(r).value.timestamp)
                       => passes_on_to_ordering(r)]_vars

\* the REQUEST replica r takes next is one it has executed and answered
Duplicate(r) ==
    /\ Takes(r, "REQUEST")
    /\ cached_reply(r) # None
    /\ \E k \in 1..Len(executed[r]) :
          /\ executed[r][k].client_id = Head(socket_buffer[r]).client_id
          /\ executed[r][k].timestamp = Head(socket_buffer[r]).timestamp
          /\ executed[r][k].operation = Head(socket_buffer[r]).operation

\* C12: a replica that takes a REQUEST it has executed and answered leaves
\* its chain, its accepted requests and its stores of PRE_PREPARE, PREPARE
\* and COMMIT messages as they are, sends no PRE_PREPARE, and sends the
\* cached reply to the client again
C12_DuplicateRequest ==
    [][\A r \in Rep :
          (Duplicate(r) /\ receive_request(r)) =>
             /\ UNCHANGED <<hcd, accepted_requests, received_pre_prepare_messages,
                            received_prepare_messages, received_commit_messages, sent>>
             /\ resends_cached_reply(r)]_vars

\* ------------------------------------------ the version vector alone
\* tests/test_version_vector.py: the HashChainDigest objects handed to
\* update_entry (common_hcd of setUp, and a second one)
common_hcd == Object("HashChainDigest", <<0, 1>>)
other_hcd == Object("HashChainDigest", <<0, 2>>)
\* the number of entries of all principals of a vector
NumEntries(vector) == Len(AllEntries(vector, 1))

\* a call of update_entry on the stand-alone version vector
call_update_entry(vector_id, entry_id, v, sequence_number, h) ==
    /\ NumEntries(vv.vector) < MaxEntries
    /\ vv' = [vv EXCEPT !.vector = update_entry(@, vector_id, entry_id, v, sequence_number, h)]
    /\ UNCHANGED <<configVars, handling, replicas, replicaVars, clientVars, now, lost, chain>>

\* a call of get_current_system_state(ff) on the stand-alone version vector
call_get_current_system_state(ff) ==
    /\ vv' = [vv EXCEPT !.f = ff,
                        !.current_state = get_current_system_state(vv.vector, ff)]
    /\ UNCHANGED <<configVars, handling, replicas, replicaVars, clientVars, now, lost, chain>>

NextVV ==
    \/ \E vector_id \in 1..3, entry_id \in 1..2, sequence_number \in 1..2,
          h \in {common_hcd, other_hcd} :
          call_update_entry(vector_id, entry_id, 2, sequence_number, h)
    \/ \E ff \in 0..1 : call_get_current_system_state(ff)

SpecVV == Init /\ [][NextVV]_vars

\* the latest entry of the i-th principal of a vector
latest_of(vector, i) == Last(vector[i].entries)
\* the principals of a vector whose latest entry has the sequence number and
\* the digest of entry e
Supporters(vector, e) ==
    {i \in 1..Len(vector) : StateKey(latest_of(vector, i)) = StateKey(e)}

\* C13: get_current_system_state(f) returns an entry only when the sequence
\* number and digest of that entry are those of the latest entry of at
\* least 2f+1 principals, the entry returned is the latest entry of one of
\* them and has the least replica id among them; it returns None only when
\* no sequence number and digest are the latest of 2f+1 principals
C13_CurrentSystemState ==
    [][\A ff \in 0..1 :
          call_get_current_system_state(ff) =>
             LET e == vv'.current_state
                 S == Supporters(vv.vector, e)
             IN  IF e = None
                 THEN \A i \in 1..Len(vv.vector) :
                         Cardinality(Supporters(vv.vector, latest_of(vv.vector, i)))
                            < 2 * ff + 1
                 ELSE /\ Cardinality(S) >= 2 * ff + 1
                      /\ \E i \in S : latest_of(vv.vector, i) = e
                      /\ \A i \in S : e.replica_id <= latest_of(vv.vector, i).replica_id]_vars

\* (view, sequence number) of entry a is not after that of entry b
NotAfter(a, b) ==
    \/ a.view < b.view
    \/ (a.view = b.view /\ a.sequence_number <= b.sequence_number)
\* the entries of every principal of a vector are in non-decreasing order
NonDecreasing(vector) ==
    \A i \in 1..Len(vector) : \A j \in 1..(Len(vector[i].entries) - 1) :
       NotAfter(vector[i].entries[j], vector[i].entries[j + 1])

\* C14: in the version vector of every replica and of every client, the
\* entries of every principal are non-decreasing in (view, sequence number)
C14_EntriesNonDecreasing ==
    /\ \A r \in Rep : NonDecreasing(version_vector[r])
    /\ \A c \in Cli : NonDecreasing(client_version_vector[c])

\* ------------------------------------------- a Byzantine backup
\* the sender, the sequence number and the store of a protocol message
Sender(msg) ==
    IF msg.message_type = "PRE_PREPARE" THEN msg.primary_replica_id ELSE msg.replica_id
Store(p, message_type) ==
    CASE message_type = "PRE_PREPARE" -> received_pre_prepare_messages[p]
      [] message_type = "PREPARE" -> received_prepare_messages[p]
      [] message_type = "COMMIT" -> received_commit_messages[p]

\* Replica.create_message and a multicast run by a Byzantine replica r: a
\* PRE_PREPARE, PREPARE or COMMIT for the sequence number FarSequence, with
\* a request of its own making, sent to every peer of its list
forge(r, message_type) ==
    /\ kind[r] = "FaultyReplica"
    /\ \A p \in SeqToSet(replicas[replicasOf[r]]) :
          /\ \A i \in 1..Len(socket_buffer[p]) :
                ~(/\ socket_buffer[p][i].message_type = message_type
                  /\ Sender(socket_buffer[p][i]) = r)
          /\ \A i \in 1..Len(Store(p, message_type)) :
                Sender(Store(p, message_type)[i]) # r
    /\ LET msg == CASE message_type = "PRE_PREPARE" ->
                         PrePrepareMessage(r, view[r], FarSequence, RequestObject(r, 0))
                    [] message_type = "PREPARE" ->
                         PrepareMessage(r, view[r], FarSequence, RequestObject(r, 0))
                    [] message_type = "COMMIT" ->
                         CommitMessage(r, view[r], FarSequence, HcdObject(r))
       IN  socket_buffer' = Queue(socket_buffer, SeqToSet(replicas[replicasOf[r]]), msg)
    /\ UNCHANGED <<configVars, handling, replicas, view, primary, reply_cache, version_vector, hcd,
                   accepted_requests, received_pre_prepare_messages,
                   received_prepare_messages, received_commit_messages,
                   pending_checkpoints, timer, listening, executed, sent,
                   clientVars, now, lost, chain, vv>>

\* scenario S2 with a faulty backup that also sends messages of its own
NextByzantine ==
    \/ NextS1
    \/ \E r \in Rep, message_type \in {"PRE_PREPARE", "PREPARE", "COMMIT"} :
          forge(r, message_type)

SpecByzantine == InitS2 /\ [][NextByzantine]_vars

\* no listener thread has a datagram waiting
Quiet == \A p \in Rep : ~(listening[p] /\ socket_buffer[p] # <<>>)

\* scenario S5: the faulty backup sends its messages when the replicas have
\* handled everything that was sent before
NextS5 ==
    \/ NextS1
    \/ \E r \in Rep, message_type \in {"PRE_PREPARE", "PREPARE", "COMMIT"} :
          Quiet /\ forge(r, message_type)

SpecS5 == InitS2 /\ [][NextS5]_vars

\* Replica.receive_pre_prepare: the sequence number the window is taken around
high(r) == IF hcd[r] = <<>> THEN 0 ELSE Last(hcd[r]).sequence_number
\* a sequence number within the window of replica r
InWindow(r, n) == n >= high(r) - W /\ n <= high(r) + W

\* C17: every PRE_PREPARE, PREPARE and COMMIT stored at a correct replica
\* has a sequence number within W of the replica's high sequence number
C17_WatermarkBound ==
    \A r \in Rep : kind[r] = "Replica" =>
       \A message_type \in {"PRE_PREPARE", "PREPARE", "COMMIT"} :
          \A i \in 1..Len(Store(r, message_type)) :
             InWindow(r, Store(r, message_type)[i].sequence_number)

\* ------------------------------------------------------ checkpoints
\* Replica.receive_commit: the replicas that have made a CHECKPOINT message
\* for sequence number n and multicast it to a peer list that holds r
checkpoints_held(r, n) ==
    {p \in Rep : /\ n \in pending_checkpoints[p]
                 /\ kind[p] = "Replica"
                 /\ r \in Reached(replicas[replicasOf[p]])}
\* the checkpoint at n is stable at replica r
Stable(r, n) == Cardinality(checkpoints_held(r, n)) >= 2 * f + 1
\* the sequence numbers of the slots replica r refers to: the blocks of its
\* chain and the messages of its stores
Slots(r) ==
    {hcd[r][i].sequence_number : i \in 1..Len(hcd[r])}
    \cup UNION {{Store(r, message_type)[i].sequence_number :
                    i \in 1..Len(Store(r, message_type))} :
                message_type \in {"PRE_PREPARE", "PREPARE", "COMMIT"}}

\* C18: a replica at which the checkpoint at n is stable, and which has
\* handled every datagram delivered to it, holds no block of its chain and
\* no PRE_PREPARE, PREPARE or COMMIT with a sequence number below n
C18_StableCheckpointTruncates ==
    \A r \in Rep : \A n \in pending_checkpoints[r] :
       (/\ kind[r] = "Replica"
        /\ Stable(r, n)
        /\ listening[r]
        /\ socket_buffer[r] = <<>>)
       => \A s \in Slots(r) : s >= n

\* ------------------------------------------------------ the quorums
\* the replicas from which replica r holds a COMMIT for view v and sequence
\* number n with the digest h
commit_senders(r, v, n, h) ==
    {received_commit_messages[r][i].replica_id :
        i \in {k \in 1..Len(received_commit_messages[r]) :
                  /\ received_commit_messages[r][k].view = v
                  /\ received_commit_messages[r][k].sequence_number = n
                  /\ received_commit_messages[r][k].hcd = h}}
\* the digests of the COMMITs replica r holds
commit_digests(r) ==
    {received_commit_messages[r][i].hcd : i \in 1..Len(received_commit_messages[r])}

\* C19: for every execute_operation call a correct replica r has made for
\* view v and sequence number n, r holds COMMITs for v and n with one digest
\* from at least 2f+1 distinct replicas, r among them
C19_ExecuteOnlyOnCommitQuorum ==
    \A r \in Rep : kind[r] = "Replica" =>
       \A i \in 1..Len(executed[r]) :
          \E h \in commit_digests(r) :
             LET senders == commit_senders(r, executed[r][i].view,
                                           executed[r][i].sequence_number, h)
             IN  Cardinality(senders) >= 2 * f + 1 /\ r \in senders

\* the backups from which replica r holds a PREPARE for view v, sequence
\* number n and request d
prepare_senders(r, v, n, d) ==
    {received_prepare_messages[r][i].replica_id :
        i \in {k \in 1..Len(received_prepare_messages[r]) :
                  /\ received_prepare_messages[r][k].view = v
                  /\ received_prepare_messages[r][k].sequence_number = n
                  /\ received_prepare_messages[r][k].request_msg = d
                  /\ ~primary[received_prepare_messages[r][k].replica_id]}}
\* replica r holds a PRE_PREPARE for view v, sequence number n and request d
holds_pre_prepare(r, v, n, d) ==
    \E i \in 1..Len(received_pre_prepare_messages[r]) :
       /\ received_pre_prepare_messages[r][i].view = v
       /\ received_pre_prepare_messages[r][i].sequence_number = n
       /\ received_pre_prepare_messages[r][i].request_msg = d

\* C20: for every block a correct replica r has appended to its chain, with
\* sequence number n and request d, r holds a PRE_PREPARE for its view, n and
\* d, and PREPAREs for its view, n and d from at least 2f distinct backups
C20_AppendOnlyWhenPrepared ==
    \A r \in Rep : kind[r] = "Replica" =>
       \A i \in 1..Len(hcd[r]) :
          /\ holds_pre_prepare(r, view[r], hcd[r][i].sequence_number, hcd[r][i].data)
          /\ Cardinality(prepare_senders(r, view[r], hcd[r][i].sequence_number,
                                         hcd[r][i].data)) >= 2 * f

\* ------------------------------------- the hash chain alone, once more
\* the blocks of chain c are numbered 0, 1, 2, ... without a gap
Contiguous(c) == \A i \in 1..Len(c) : c[i].sequence_number = i - 1

\* C15: a call of add_block with a sequence number other than the length of
\* the chain leaves the chain as it is, and so the blocks of every chain
\* are contiguous in sequence number
C15_AppendRequiresNextSequence ==
    [][/\ \A d \in DOMAIN chain, block_data \in BlockData, sequence_number \in 0..1 :
             (call_add_block(d, block_data, sequence_number)
              /\ sequence_number # Len(chain[d])) => chain' = chain
       /\ \A d \in DOMAIN chain : Contiguous(chain'[d])]_vars

\* C16: a call of add_block makes the chain one block longer and keeps the
\* blocks it had, in their order; get_last_block then returns the block with
\* the data and the sequence number of the call; the other chain is untouched
C16_AddBlockAppendsOne ==
    [][\A d \in DOMAIN chain, block_data \in BlockData, sequence_number \in 0..1 :
          call_add_block(d, block_data, sequence_number) =>
             /\ Len(chain'[d]) = Len(chain[d]) + 1
             /\ SubSeq(chain'[d], 1, Len(chain[d])) = chain[d]
             /\ get_last_block(chain'[d]).data = block_data
             /\ get_last_block(chain'[d]).sequence_number = sequence_number
             /\ \A e \in DOMAIN chain \ {d} : chain'[e] = chain[e]]_vars

\* three calls on an empty chain, the first with sequence number 1 as in
\* the tests, the last repeating a sequence number: the chain has three
\* blocks and get_last_block returns the block of the third call
C16_Witness ==
    /\ Len(chain[1]) = 3
    /\ chain[1][1].sequence_number = 1
    /\ chain[1][2].sequence_number = 1
    /\ chain[1][3].sequence_number = 0
    /\ chain[1][1].data # chain[1][3].data
    /\ get_last_block(chain[1]) = chain[1][3]
    /\ chain[2] = <<>>

\* -------------------------------------------------- sequence numbers
\* the request a PRE_PREPARE of primary p was made for: create_message is
\* handed the RequestMessage object the primary has just put at the end of
\* accepted_requests
request_of(m) == accepted_requests[m.request_msg.address[1]][m.request_msg.address[2]]

\* C21: the PRE_PREPAREs a correct primary has sent for one view and one
\* sequence number are all for one request
C21_OneRequestPerSequenceNumber ==
    \A r \in Rep : kind[r] = "Replica" =>
       \A m1, m2 \in {m \in sent[r] : m.message_type = "PRE_PREPARE"} :
          (m1.view = m2.view /\ m1.sequence_number = m2.sequence_number)
          => Request(request_of(m1)) = Request(request_of(m2))

\* the PREPAREs replica r has sent
prepares_sent(r) == {m \in sent[r] : m.message_type = "PREPARE"}

\* C22: the PREPAREs a correct replica has sent for one view and one
\* sequence number all name one request
C22_OnePreparePerSequenceNumber ==
    \A r \in Rep : kind[r] = "Replica" =>
       \A m1, m2 \in prepares_sent(r) :
          (m1.view = m2.view /\ m1.sequence_number = m2.sequence_number)
          => m1.request_msg = m2.request_msg

\* the primary has sent PRE_PREPAREs for two requests at sequence number 0,
\* the backup has taken both from its socket and has sent a PREPARE for
\* one of them
C22_Witness ==
    /\ \E m1, m2 \in sent[0] :
          /\ m1.message_type = "PRE_PREPARE" /\ m2.message_type = "PRE_PREPARE"
          /\ m1.sequence_number = m2.sequence_number
          /\ m1.request_msg # m2.request_msg
    /\ listening[1]
    /\ \A i \in 1..Len(socket_buffer[1]) : socket_buffer[1][i].message_type # "PRE_PREPARE"
    /\ Len(received_pre_prepare_messages[1]) >= 2
    /\ prepares_sent(1) # {}

\* ------------------------------------------------------ view changes
\* the VIEW_CHANGE messages replica r has multicast
view_changes_sent(r) == {m \in sent[r] : m.message_type = "VIEW_CHANGE"}
\* the PRE_PREPARE that backup r is about to take names another request than
\* the PRE_PREPARE it has stored for that sequence number
ConflictingPrePrepare(r) ==
    /\ Takes(r, "PRE_PREPARE")
    /\ ~primary[r]
    /\ received_pre_prepare_messages[r] # <<>>
    /\ pre_prepare_conflicts(received_pre_prepare_messages[r], Head(socket_buffer[r]))

\* C23: a backup that handles a PRE_PREPARE naming another request than
\* the one it has accepted for that sequence number multicasts a
\* VIEW_CHANGE for the next view
C23_ConflictStartsViewChange ==
    [][\A r \in Rep :
          (kind[r] = "Replica" /\ ConflictingPrePrepare(r) /\ receive_pre_prepare(r))
          => \E m \in view_changes_sent(r)' : m.view = view[r] + 1]_vars

\* ------------------------------------------------------ foreign views
\* Replica.create_message and a multicast run by a Byzantine replica r: a
\* PRE_PREPARE, PREPARE or COMMIT for the view after the current one and
\* sequence number 0, sent once to every peer of its list
forge_next_view(r, message_type) ==
    /\ kind[r] = "FaultyReplica"
    /\ \A p \in SeqToSet(replicas[replicasOf[r]]) :
          /\ \A i \in 1..Len(socket_buffer[p]) :
                ~(/\ socket_buffer[p][i].message_type = message_type
                  /\ socket_buffer[p][i].view # view[p])
          /\ \A i \in 1..Len(Store(p, message_type)) :
                Store(p, message_type)[i].view = view[p]
    /\ LET msg == CASE message_type = "PRE_PREPARE" ->
                         PrePrepareMessage(r, view[r] + 1, 0, RequestObject(r, 0))
                    [] message_type = "PREPARE" ->
                         PrepareMessage(r, view[r] + 1, 0, RequestObject(r, 0))
                    [] message_type = "COMMIT" ->
                         CommitMessage(r, view[r] + 1, 0, HcdObject(r))
       IN  socket_buffer' = Queue(socket_buffer, SeqToSet(replicas[replicasOf[r]]), msg)
    /\ UNCHANGED <<configVars, handling, replicas, view, primary, reply_cache, version_vector, hcd,
                   accepted_requests, received_pre_prepare_messages,
                   received_prepare_messages, received_commit_messages,
                   pending_checkpoints, timer, listening, executed, sent,
                   clientVars, now, lost, chain, vv>>

\* scenario S2 with a faulty backup that sends messages for the next view
\* when the replicas have handled everything that was sent before
NextForeignView ==
    \/ NextS1
    \/ \E r \in Rep, message_type \in {"PRE_PREPARE", "PREPARE", "COMMIT"} :
          Quiet /\ forge_next_view(r, message_type)

SpecForeignView == InitS2 /\ [][NextForeignView]_vars

\* C24: a correct replica that handles a PRE_PREPARE, PREPARE or COMMIT of
\* another view than its own sends nothing and leaves its chain and its
\* version vector as they are, and when the view of the message is lower
\* it leaves its stores as they are too
C24_ForeignViewNotActedOn ==
    [][\A r \in Rep :
          (/\ kind[r] = "Replica"
           /\ listening[r] /\ socket_buffer[r] # <<>>
           /\ Head(socket_buffer[r]).message_type \in {"PRE_PREPARE", "PREPARE", "COMMIT"}
           /\ Head(socket_buffer[r]).view # view[r]
           /\ (receive_pre_prepare(r) \/ receive_prepare(r) \/ receive_commit(r)))
          => /\ sent'[r] = sent[r]
             /\ hcd'[r] = hcd[r]
             /\ version_vector'[r] = version_vector[r]
             /\ Head(socket_buffer[r]).view < view[r] =>
                   /\ received_pre_prepare_messages'[r] = received_pre_prepare_messages[r]
                   /\ received_prepare_messages'[r] = received_prepare_messages[r]
                   /\ received_commit_messages'[r] = received_commit_messages[r]]_vars

\* --------------------------------------------------------- the primary
\* C25: a correct replica that is the primary of its view has sent no
\* PREPARE for that view
C25_PrimarySendsNoPrepare ==
    \A r \in Rep : (kind[r] = "Replica" /\ primary[r]) =>
       \A m \in prepares_sent(r) : m.view # view[r]

\* ------------------------------------------------------------ replies
\* the request of a block of a chain: the block holds the text of the
\* PRE_PREPARE's request field, which names the request object of the primary
request_of_block(block) == accepted_requests[block.data.address[1]][block.data.address[2]]

\* C26: every REPLY a correct replica has sent for sequence number n carries
\* the replica's id and view, and the client id and the timestamp of the
\* request of a block with sequence number n of the replica's chain
C26_ReplyEchoesCommittedRequest ==
    \A r \in Rep : kind[r] = "Replica" =>
       \A m \in {x \in sent[r] : x.message_type = "REPLY"} :
          /\ m.entry.replica_id = r
          /\ m.entry.view = view[r]
          /\ \E i \in 1..Len(hcd[r]) :
                /\ hcd[r][i].sequence_number = m.entry.sequence_number
                /\ request_of_block(hcd[r][i]).client_id = m.client_id
                /\ request_of_block(hcd[r][i]).timestamp = m.timestamp

\* ----------------------------------------------------- the view timer
\* replica r has executed every request it has accepted
AllCommitted(r) ==
    /\ accepted_requests[r] # <<>>
    /\ \A i \in 1..Len(accepted_requests[r]) :
          \E k \in 1..Len(executed[r]) :
             Request(executed[r][k]) = <<accepted_requests[r][i].client_id,
                                         accepted_requests[r][i].timestamp,
                                         accepted_requests[r][i].operation>>

\* C27: when the timer of a correct replica runs out after the replica has
\* executed every request it accepted, the replica multicasts no VIEW_CHANGE:
\* the timer was cancelled when the request committed
C27_TimerCancelledOnCommit ==
    [][\A r \in Rep :
          (kind[r] = "Replica" /\ AllCommitted(r) /\ send_view_change(r))
          => view_changes_sent(r)' = view_changes_sent(r)]_vars

\* C28: when the timer of a correct replica runs out while a request it
\* accepted is not executed (and the replicas have handled every datagram
\* they were sent), the replica multicasts a VIEW_CHANGE for the view after its own
C28_ExpiryBroadcastsViewChange ==
    [][\A r \in Rep :
          (/\ kind[r] = "Replica"
           /\ accepted_requests[r] # <<>>
           /\ Quiet
           /\ ~AllCommitted(r)
           /\ send_view_change(r))
          => \E m \in view_changes_sent(r)' : m.view = view[r] + 1]_vars

\* the entries replica r has written into its own list of its version
\* vector for itself: one when it appends a block, in receive_prepare
own_entries(r) ==
    IF HasKey(version_vector[r], r)
    THEN {e \in SeqToSet(version_vector[r][KeyIndex(version_vector[r], r)].entries) :
             e.replica_id = r}
    ELSE {}
\* entry a is for a later view, or for the same view and a later or equal
\* sequence number, than entry b
NotBefore(a, b) ==
    \/ a.view > b.view
    \/ a.view = b.view /\ a.sequence_number >= b.sequence_number

\* C29: the entry carried by the VIEW_CHANGE a correct replica r multicasts
\* is an entry of r for itself, and no entry of r for itself is for a later
\* view or sequence number
C29_ViewChangeCarriesLatestOwnEntry ==
    [][\A r \in Rep :
          (kind[r] = "Replica" /\ send_view_change(r)) =>
             \A m \in view_changes_sent(r)' \ view_changes_sent(r) :
                /\ m.version_vector_entry \in own_entries(r)
                /\ \A e \in own_entries(r) : NotBefore(m.version_vector_entry, e)]_vars

\* ----------------------------------------------------------- NEW_VIEW
\* a Byzantine replica r sends every peer of its list a NEW_VIEW datagram
\* for view v that names the signers V of its VIEW_CHANGE messages
forge_new_view(r, v, V) ==
    /\ kind[r] = "FaultyReplica"
    /\ \A p \in Rep : \A i \in 1..Len(socket_buffer[p]) :
          socket_buffer[p][i].message_type # "NEW_VIEW"
    /\ socket_buffer' =
          [p \in Rep |->
              IF p \in SeqToSet(replicas[replicasOf[r]])
              THEN Append(socket_buffer[p], [message_type |-> "NEW_VIEW", view |-> v, V |-> V])
              ELSE socket_buffer[p]]
    /\ UNCHANGED <<configVars, handling, replicas, view, primary, reply_cache, version_vector, hcd,
                   accepted_requests, received_pre_prepare_messages,
                   received_prepare_messages, received_commit_messages,
                   pending_checkpoints, timer, listening, executed, sent,
                   clientVars, now, lost, chain, vv>>

\* the handling of a NEW_VIEW with a defect: the datagram deserializes and
\* Replica.receive_new_view is handed the message; it looks at the view only
receive_new_view_adopting(r) ==
    /\ Takes(r, "NEW_VIEW")
    /\ socket_buffer' = [socket_buffer EXCEPT ![r] = Tail(@)]
    /\ view' = [view EXCEPT ![r] = IF Head(socket_buffer[r]).view <= @ THEN @
                                   ELSE Head(socket_buffer[r]).view]
    /\ UNCHANGED <<configVars, handling, replicas, primary, reply_cache, version_vector, hcd,
                   accepted_requests, received_pre_prepare_messages,
                   received_prepare_messages, received_commit_messages,
                   pending_checkpoints, timer, listening, executed, sent,
                   clientVars, now, lost, chain, vv>>
\* Replica._listen_thread takes a NEW_VIEW datagram: deserialize_message
\* returns an exception (int() of a list) and the thread goes on to the next
\* datagram, so Replica.receive_new_view is not called
receive_new_view(r) ==
    /\ Takes(r, "NEW_VIEW")
    /\ socket_buffer' = [socket_buffer EXCEPT ![r] = Tail(@)]
    /\ UNCHANGED <<configVars, handling, replicas, view, primary, reply_cache, version_vector, hcd,
                   accepted_requests, received_pre_prepare_messages,
                   received_prepare_messages, received_commit_messages,
                   pending_checkpoints, timer, listening, executed, sent,
                   clientVars, now, lost, chain, vv>>

\* scenario S2 with a faulty backup that sends NEW_VIEW datagrams, for the
\* current view and for the next, with one signer and with three
NextNewView ==
    \/ NextS1
    \/ \E r \in Rep, v \in 0..1 : \E V \in {{r}, {0, 1, r}} : Quiet /\ forge_new_view(r, v, V)
    \/ \E r \in Rep : Scheduled(r) /\ receive_new_view(r)

SpecNewView == InitS2 /\ [][NextNewView]_vars

InitView ==
    \E v \in 0..MaxView :
       ConstructedInView(v, 0, [r \in {0, 1} |-> "Replica"], {0},
                         [Replica |-> <<0, 1>>, Client |-> <<0, 1>>],
                         [r \in {0, 1} |-> "Replica"], [c \in {0} |-> "Client"],
                         [c \in {0} |-> <<"log in", "log out">>])

SpecView == InitView /\ [][Next]_vars

\* C33: a replica with id r in view v takes itself for the primary exactly
\* when v mod N = r, N being the number of replicas
C33_PrimaryIsViewModN ==
    \A r \in Rep : primary[r] <=> (view[r] % Cardinality(Rep) = r)

\* ---------------------------------------------------------- dominance
\* a Byzantine replica r sends every peer of its list a VIEW_CHANGE datagram
\* written so that deserialize_message can read it (the VIEW_CHANGE of
\* Message.to_string cannot be read); it carries an entry of r for view 0 and
\* the given sequence number
forge_view_change(r, sequence_number) ==
    /\ kind[r] = "FaultyReplica"
    /\ \A p \in Rep : \A i \in 1..Len(socket_buffer[p]) :
          socket_buffer[p][i].message_type # "VIEW_CHANGE"
    /\ socket_buffer' =
          [p \in Rep |->
              IF p \in SeqToSet(replicas[replicasOf[r]])
              THEN Append(socket_buffer[p],
                          [message_type |-> "VIEW_CHANGE", view |-> view[r] + 1,
                           replica_id |-> r,
                           version_vector_entry |->
                              [replica_id |-> r, view |-> 0,
                               sequence_number |-> sequence_number,
                               hcd |-> Str(HcdObject(r))],
                           P |-> {}])
              ELSE socket_buffer[p]]
    /\ UNCHANGED <<configVars, handling, replicas, view, primary, reply_cache, version_vector, hcd,
                   accepted_requests, received_pre_prepare_messages,
                   received_prepare_messages, received_commit_messages,
                   pending_checkpoints, timer, listening, executed, sent,
                   clientVars, now, lost, chain, vv>>

\* Replica._listen_thread takes a VIEW_CHANGE it could deserialize.  A backup
\* does nothing with it.  The primary calls receive_view_change with the
\* bytes of the datagram, not with the message: data.get_version_vector_entry()
\* raises AttributeError and the listener thread dies.
receive_view_change(r) ==
    /\ Takes(r, "VIEW_CHANGE")
    /\ socket_buffer' = [socket_buffer EXCEPT ![r] = Tail(@)]
    /\ listening' = [listening EXCEPT ![r] = ~primary[r]]
    /\ UNCHANGED <<configVars, handling, replicas, view, primary, reply_cache, version_vector, hcd,
                   accepted_requests, received_pre_prepare_messages,
                   received_prepare_messages, received_commit_messages,
                   pending_checkpoints, timer, executed, sent,
                   clientVars, now, lost, chain, vv>>

\* scenario S5 with a faulty backup that also sends VIEW_CHANGE datagrams
NextDominance ==
    \/ NextS5
    \/ \E r \in Rep, sequence_number \in {0, FarSequence} :
          Quiet /\ forge_view_change(r, sequence_number)
    \/ \E r \in Rep : Scheduled(r) /\ receive_view_change(r)

SpecDominance == InitS2 /\ [][NextDominance]_vars

\* C34: a correct replica r sends PRIMARY_NOT_DOMINANT exactly in the steps
\* in which it takes a VIEW_CHANGE whose entry is strictly behind the latest
\* entry r holds for itself, (view, sequence number) compared in
\* lexicographic order
C34_DominanceCheck ==
    [][\A r \in Rep : kind[r] = "Replica" =>
          ((\E m \in sent'[r] \ sent[r] : m.message_type = "PRIMARY_NOT_DOMINANT")
           <=> /\ receive_view_change(r)
               /\ \E e \in own_entries(r) :
                     ~NotBefore(Head(socket_buffer[r]).version_vector_entry, e))]_vars

\* ----------------------------------------------------------- known state
\* scenario S1 seen from the client, which calls make_request four times
InitKnownState ==
    Constructed(1, [r \in 0..3 |-> "Replica"], {0},
                [Replica |-> <<0, 1, 2, 3>>, Client |-> <<0, 1, 2, 3>>],
                [r \in 0..3 |-> "Replica"], [c \in {0} |-> "Client"],
                [c \in {0} |-> <<"log in", "log out", "log in", "log out">>])

SpecKnownState == InitKnownState /\ [][NextClient]_vars

\* C35: the REQUEST a client makes carries the current system state of the
\* client's version vector for the fault bound f of the client, the entry
\* that 2f+1 entries of the vector agree on, or None when there is none
C35_KnownStateUsesClientF ==
    [][\A c \in Cli :
          requests_made'[c] # requests_made[c] =>
             LET i == current_system_state_index(client_version_vector[c], f)
             IN  Last(pending_requests'[c]).current_system_state =
                    IF i = 0 THEN None ELSE Object("VersionVectorEntry", <<c, i>>)]_vars

\* C36: a correct replica r that takes a REQUEST whose known state differs
\* from the current system state of r's own version vector, by sequence
\* number or by chain, does not accept it and sends no PRE_PREPARE for it,
\* and it answers the client with a REPLY that does not report success
C36_DivergingRequestRefused ==
    [][\A r \in Rep :
          (kind[r] = "Replica" /\ receive_request(r)) =>
             LET data == Head(socket_buffer[r])
                 known == data.current_system_state
                 entry == AllEntries(client_version_vector[data.client_id], 1)[known.address[2]]
                 own == get_current_system_state(version_vector[r], f)
                 chain_of(e) == IF e.hcd.py = "object" THEN Str(e.hcd) ELSE e.hcd
                 diverges == /\ known.py = "repr"
                             /\ own # None
                             /\ <<own.sequence_number, chain_of(own)>> #
                                   <<entry.sequence_number, chain_of(entry)>>
             IN  diverges =>
                    /\ accepted_requests'[r] = accepted_requests[r]
                    /\ \A m \in sent'[r] \ sent[r] : m.message_type # "PRE_PREPARE"
                    /\ \E m \in sent'[r] \ sent[r] :
                          /\ m.message_type = "REPLY"
                          /\ m.client_id = data.client_id
                          /\ m.result # True]_vars

\* ------------------------------------------------------------ threads
\* Replica.receive_prepare up to and with the add_block call of line 355, in
\* the case that leads there: the listener thread is now between line 355
\* and line 356
receive_prepare_add_block(r) ==
    /\ Takes(r, "PREPARE")
    /\ kind[r] = "Replica"
    /\ LET data == Head(socket_buffer[r])
           prepares == Append(received_prepare_messages[r], data)
       IN  /\ ~find_replica_dies(r, data.replica_id)
           /\ prepared(prepares, received_pre_prepare_messages[r], data, f)
           /\ socket_buffer' = [socket_buffer EXCEPT ![r] = Tail(@)]
           /\ replicas' = [replicas EXCEPT ![replicasOf[r]] =
                              add_unknown_sender(r, data.replica_id)]
           /\ received_prepare_messages' = [received_prepare_messages EXCEPT ![r] = prepares]
           /\ hcd' = [hcd EXCEPT ![r] =
                         add_block(@, data.request_msg, data.sequence_number, now)]
           /\ handling' = [handling EXCEPT ![r] = data]
    /\ UNCHANGED <<configVars, view, primary, reply_cache, version_vector,
                   accepted_requests, received_pre_prepare_messages,
                   received_commit_messages, pending_checkpoints, timer, listening,
                   executed, sent, clientVars, now, lost, chain, vv>>

\* Replica.receive_prepare from line 356 to its end
receive_prepare_update_entry(r) ==
    /\ listening[r]
    /\ handling[r] # None
    /\ \E m \in multicast_message(r, replicas[replicasOf[r]]) :
          LET data == handling[r]
              commit_message == CommitMessage(r, view[r], data.sequence_number, HcdObject(r))
          IN  /\ version_vector' = [version_vector EXCEPT ![r] =
                     update_entry(@, r, r, view[r], data.sequence_number, HcdObject(r))]
              /\ socket_buffer' = Queue(socket_buffer, m.to, commit_message)
              /\ sent' = [sent EXCEPT ![r] = @ \cup {commit_message}]
              /\ listening' = [listening EXCEPT ![r] = ~m.dies]
    /\ handling' = [handling EXCEPT ![r] = None]
    /\ UNCHANGED <<configVars, replicas, view, primary, reply_cache, hcd,
                   accepted_requests, received_pre_prepare_messages,
                   received_prepare_messages, received_commit_messages,
                   pending_checkpoints, timer, executed, clientVars, now, lost, chain, vv>>

\* tests/test_normal_scenario.py with the threads of a replica, the listener
\* thread and the Timer thread of start_timer, taking their steps one by one
NextThreads ==
    \/ NextTest
    \/ \E r \in Rep : receive_prepare_add_block(r)
    \/ \E r \in Rep : receive_prepare_update_entry(r)

SpecThreads == InitTest /\ [][NextThreads]_vars

\* C37: the Timer thread of a replica runs send_view_change only while the
\* listener thread of the replica is inside no handler
C37_HandlersSerialized ==
    [][\A r \in Rep : send_view_change(r) => handling[r] = None]_vars

\* -------------------------------------------------------------- peers
\* Replica.add_replica, called on replica r with the replica `replica`
add_replica(r, replica) ==
    /\ replicas' = [replicas EXCEPT ![replicasOf[r]] =
                       IF replica \in SeqToSet(@) THEN @ ELSE Append(@, replica)]
    /\ UNCHANGED <<configVars, handling, replicaVars, clientVars, now, lost, chain, vv>>

\* Client.add_replica, called on client c
client_add_replica(c, replica) ==
    /\ replicas' = [replicas EXCEPT ![clientReplicasOf[c]] =
                       IF replica \in SeqToSet(@) THEN @ ELSE Append(@, replica)]
    /\ UNCHANGED <<configVars, handling, replicaVars, clientVars, now, lost, chain, vv>>

\* tests/test_faulty_replica_scenario.py after its constructors: replica0 and
\* replica1 hold the default list of Replica.__init__, faulty_replica holds
\* the default list of FaultyReplica.__init__, the client that of
\* Client.__init__, and the lists are empty
InitSetup ==
    Constructed(1, [r \in 0..2 |-> IF r = 2 THEN "FaultyReplica" ELSE "Replica"], {0},
                [Replica |-> <<>>, FaultyReplica |-> <<>>, Client |-> <<>>],
                [r \in 0..2 |-> IF r = 2 THEN "FaultyReplica" ELSE "Replica"],
                [c \in {0} |-> "Client"],
                [c \in {0} |-> <<"log in">>])

\* the add_replica calls a test script can make
NextSetup ==
    \/ \E r, replica \in Rep : add_replica(r, replica)
    \/ \E c \in Cli, replica \in Rep : client_add_replica(c, replica)

SpecSetup == InitSetup /\ [][NextSetup]_vars

\* C38: an add_replica call on a replica r leaves the peer list of every
\* other replica, and of every client, as it was
C38_PeerListsPerInstance ==
    [][\A r, replica \in Rep :
          add_replica(r, replica) =>
             /\ \A p \in Rep \ {r} : replicas'[replicasOf[p]] = replicas[replicasOf[p]]
             /\ \A c \in Cli : replicas'[clientReplicasOf[c]] = replicas[clientReplicasOf[c]]]_vars

\* Replica.create_message and a multicast run by a Byzantine replica r: a
\* PRE_PREPARE, PREPARE or COMMIT that names as its sender an id no replica
\* has, sent to every peer of its list
forge_unknown_sender(r, message_type) ==
    /\ kind[r] = "FaultyReplica"
    /\ \A p \in SeqToSet(replicas[replicasOf[r]]) :
          /\ \A i \in 1..Len(socket_buffer[p]) :
                socket_buffer[p][i].message_type = message_type
                => Sender(socket_buffer[p][i]) \in Rep
          /\ \A i \in 1..Len(Store(p, message_type)) : Sender(Store(p, message_type)[i]) \in Rep
    /\ LET id == Cardinality(Rep)
           msg == CASE message_type = "PRE_PREPARE" ->
                         PrePrepareMessage(id, view[r], 0, RequestObject(r, 0))
                    [] message_type = "PREPARE" ->
                         PrepareMessage(id, view[r], 0, RequestObject(r, 0))
                    [] message_type = "COMMIT" ->
                         CommitMessage(id, view[r], 0, HcdObject(r))
       IN  socket_buffer' = Queue(socket_buffer, SeqToSet(replicas[replicasOf[r]]), msg)
    /\ UNCHANGED <<configVars, handling, replicas, view, primary, reply_cache,
                   version_vector, hcd, accepted_requests, received_pre_prepare_messages,
                   received_prepare_messages, received_commit_messages,
                   pending_checkpoints, timer, listening, executed, sent,
                   clientVars, now, lost, chain, vv>>

\* scenario S2 with a faulty backup that sends messages under an unknown id
\* when the replicas have handled everything that was sent before
NextUnknownSender ==
    \/ NextS1
    \/ \E r \in Rep, message_type \in {"PRE_PREPARE", "PREPARE", "COMMIT"} :
          Quiet /\ forge_unknown_sender(r, message_type)

SpecUnknownSender == InitS2 /\ [][NextUnknownSender]_vars

\* C39: a correct replica that handles a PRE_PREPARE, PREPARE or COMMIT whose
\* sender id is not in its peer list keeps its peer list as it was, and its
\* listener thread goes on
C39_PeerSetFixed ==
    [][\A r \in Rep :
          (/\ kind[r] = "Replica"
           /\ receive_pre_prepare(r) \/ receive_prepare(r) \/ receive_commit(r)
           /\ Sender(Head(socket_buffer[r])) \notin SeqToSet(replicas[replicasOf[r]]))
          => /\ replicas'[replicasOf[r]] = replicas[replicasOf[r]]
             /\ listening'[r]]_vars

\* ---------------------------------------------------------- staleness
\* C40: a correct replica that takes a REQUEST of a client for which it has
\* cached no reply, or a reply with a smaller timestamp, does not return
\* from receive_request without having accepted the request
C40_StaleByOwnTimestampsOnly ==
    [][\A r \in Rep :
          (kind[r] = "Replica" /\ receive_request(r)) =>
             LET data == Head(socket_buffer[r])
                 cached == reply_cache[r][data.client_id]
                 fresh == \/ cached = None
                          \/ data.timestamp > cached.value.timestamp
                 returned == /\ listening'[r]
                             /\ accepted_requests'[r] = accepted_requests[r]
             IN  fresh => ~returned]_vars

=============================================================================
